---- MODULE Spec2Model ----
(***************************************************************************)
(* A model of eip712_structs/struct.py: the EIP712Struct class (members,   *)
(* values, type signature, reference gathering, data encoding) and the     *)
(* wire bridge struct_to_dict / struct_from_dict.                          *)
(*                                                                         *)
(* Python strings are sequences of one-character strings, so that          *)
(* formatting, regular-expression matching and string ordering are         *)
(* computed rather than assumed.  A class is identified by its type_name;  *)
(* `graph` maps each class to its __dict__ (an ordered list of attributes).*)
(***************************************************************************)
EXTENDS Integers, Sequences, FiniteSets, TLC

VARIABLES
    graph,       \* the struct classes: type_name -> ordered class attributes
    primary,     \* the primary struct instance
    domain,      \* the domain struct instance
    out,         \* the signing hash of the last struct_to_dict call (None before)
    res,         \* the last operation and what it returned
    stack,       \* call stack of _gather_reference_structs
    struct_set,  \* the set handed down the reference-gathering walk
    calls,       \* recursive _gather_reference_structs calls per class
    steps        \* loop iterations and returns of the current walk

vars == <<graph, primary, domain, out, res, stack, struct_set, calls, steps>>

-----------------------------------------------------------------------------
(* Bounds of the model *)

\* longest member list of a struct class
MaxMembers == 2
\* longest sequence held by an array-typed member
MaxArrayLen == 1

-----------------------------------------------------------------------------
(* Python values *)

None == [kind |-> "None"]

\* printable ASCII, in code-point order starting at 32 (code point 96, which a
\* TLA+ string cannot hold, is spelled out and matches no character)
Ascii ==
    <<" ", "!", "\"", "#", "$", "%", "&", "'", "(", ")", "*", "+", ",", "-",
      ".", "/", "0", "1", "2", "3", "4", "5", "6", "7", "8", "9", ":", ";",
      "<", "=", ">", "?", "@", "A", "B", "C", "D", "E", "F", "G", "H", "I",
      "J", "K", "L", "M", "N", "O", "P", "Q", "R", "S", "T", "U", "V", "W",
      "X", "Y", "Z", "[", "\\", "]", "^", "_", "(backtick)", "a", "b", "c", "d", "e",
      "f", "g", "h", "i", "j", "k", "l", "m", "n", "o", "p", "q", "r", "s",
      "t", "u", "v", "w", "x", "y", "z", "{", "|", "}", "~">>

\* code point of a character
Ord(c) == 31 + (CHOOSE i \in 1..Len(Ascii) : Ascii[i] = c)

\* a < b on Python strings: lexicographic by code point
RECURSIVE StrLess(_, _)
StrLess(a, b) ==
    IF b = <<>> THEN FALSE
    ELSE IF a = <<>> THEN TRUE
    ELSE IF a[1] = b[1] THEN StrLess(Tail(a), Tail(b))
    ELSE Ord(a[1]) < Ord(b[1])

Digits == <<"0", "1", "2", "3", "4", "5", "6", "7", "8", "9">>

IsDigit(c) == \E i \in 1..Len(Digits) : Digits[i] = c

\* str(n) for n >= 0
RECURSIVE IntToStr(_)
IntToStr(n) ==
    IF n < 10 THEN <<Digits[n + 1]>>
    ELSE IntToStr(n \div 10) \o <<Digits[(n % 10) + 1]>>

\* int(s) for a string of digits
RECURSIVE StrToInt(_)
StrToInt(s) ==
    IF s = <<>> THEN 0
    ELSE 10 * StrToInt(SubSeq(s, 1, Len(s) - 1))
         + ((CHOOSE i \in 1..Len(Digits) : Digits[i] = s[Len(s)]) - 1)

\* sep.join(parts)
RECURSIVE Join(_, _)
Join(sep, parts) ==
    IF parts = <<>> THEN <<>>
    ELSE IF Len(parts) = 1 THEN parts[1]
    ELSE parts[1] \o sep \o Join(sep, Tail(parts))

\* the join of parts with an empty separator
RECURSIVE Concat(_)
Concat(parts) == IF parts = <<>> THEN <<>> ELSE parts[1] \o Concat(Tail(parts))

\* some listing of a set, as iterating a Python set gives
RECURSIVE SetToSeq(_)
SetToSeq(S) ==
    IF S = {} THEN <<>>
    ELSE LET x == CHOOSE y \in S : TRUE IN <<x>> \o SetToSeq(S \ {x})

-----------------------------------------------------------------------------
(* Type descriptors (eip712_structs.types) *)

\* a basic EIP712Type instance of the scalar catalog
Scalar(name) == [kind |-> "scalar", type_name |-> name]

\* a struct class used as a member type
StructRef(cls) == [kind |-> "struct", cls |-> cls]

\* Array(member_type, fixed_length); 0 means dynamically sized
Array(member_type, fixed_length) ==
    [kind |-> "array", member_type |-> member_type, fixed_length |-> fixed_length]

\* isinstance(x, EIP712Type) for a class attribute x
IsEIP712Type(x) == x.kind \in {"scalar", "array"}

\* isinstance(x, type) and issubclass(x, EIP712Struct)
IsStructClass(x) == x.kind = "struct"

\* typ.type_name: the name of a basic type, the __name__ of a struct class,
\* the name an Array derives from its member type and length
RECURSIVE type_name(_)
RECURSIVE array_type_name(_)
array_type_name(typ) ==
    type_name(typ.member_type) \o <<"[">>
    \o (IF typ.fixed_length > 0 THEN IntToStr(typ.fixed_length) ELSE <<>>)
    \o <<"]">>

type_name(typ) ==
    CASE typ.kind = "scalar" -> typ.type_name
      [] typ.kind = "struct" -> typ.cls
      [] typ.kind = "array" -> array_type_name(typ)

-----------------------------------------------------------------------------
(* Names of the struct classes the model is run on *)

NameA == <<"A">>
NameAb == <<"A", "b">>
NameM == <<"M">>
EIP712Domain == <<"E", "I", "P", "7", "1", "2", "D", "o", "m", "a", "i", "n">>

-----------------------------------------------------------------------------
(* EIP712Struct: members and type signature *)

IsMember(m) == IsEIP712Type(m.typ) \/ IsStructClass(m.typ)

\* cls.get_members(): the class attributes that are types, in definition order
get_members(cls, G) == SelectSeq(G[cls], IsMember)

\* the list `structs` of _gather_reference_structs
IsStructMember(m) == IsStructClass(m.typ)

gather_structs(cls, G) ==
    LET ms == SelectSeq(get_members(cls, G), IsStructMember)
    IN  [i \in 1..Len(ms) |-> ms[i].typ.cls]

\* cls._gather_reference_structs(struct_set): the set after the call
RECURSIVE gather_reference_structs(_, _, _)
RECURSIVE gather_loop(_, _, _, _)
gather_loop(structs, i, S, G) ==
    IF i > Len(structs) THEN S
    ELSE IF structs[i] \notin S
         THEN gather_loop(structs, i + 1,
                          gather_reference_structs(structs[i], S \cup {structs[i]}, G), G)
         ELSE gather_loop(structs, i + 1, S, G)

gather_reference_structs(cls, S, G) == gather_loop(gather_structs(cls, G), 1, S, G)

\* insertion of x into a list sorted by type_name, after its equals (stable)
RECURSIVE insert_sorted(_, _)
insert_sorted(x, s) ==
    IF s = <<>> THEN <<x>>
    ELSE IF StrLess(x, s[1]) THEN <<x>> \o s
    ELSE <<s[1]>> \o insert_sorted(x, Tail(s))

RECURSIVE sort_list(_)
sort_list(s) ==
    IF s = <<>> THEN <<>>
    ELSE insert_sorted(s[Len(s)], sort_list(SubSeq(s, 1, Len(s) - 1)))

\* the references listed without the sort by type_name
unsorted_structs(reference_structs, cls) == SetToSeq(reference_structs \ {cls})

\* sorted(list(s for s in reference_structs if s != cls), key=lambda s: s.type_name)
sorted_structs(reference_structs, cls) == sort_list(SetToSeq(reference_structs \ {cls}))

\* f'{cls.type_name}({",".join(member_sigs)})'
struct_sig(cls, G) ==
    LET ms == get_members(cls, G)
        member_sigs == [i \in 1..Len(ms) |-> type_name(ms[i].typ) \o <<" ">> \o ms[i].name]
    IN  cls \o <<"(">> \o Join(<<",">>, member_sigs) \o <<")">>

\* the signature built by _encode_type(True) once the references are gathered
sig_with_references(cls, reference_structs, G) ==
    LET ss == sorted_structs(reference_structs, cls)
    IN  struct_sig(cls, G) \o Concat([i \in 1..Len(ss) |-> struct_sig(ss[i], G)])

\* cls._encode_type(resolve_references)
encode_type_(cls, resolve_references, G) ==
    IF resolve_references
    THEN sig_with_references(cls, gather_reference_structs(cls, {}, G), G)
    ELSE struct_sig(cls, G)

\* cls.encode_type()
encode_type(cls, G) == encode_type_(cls, TRUE, G)

-----------------------------------------------------------------------------
(* EIP712Struct instances: values, data encoding, plain data *)

\* a scalar field value
Value(v) == [kind |-> "value", v |-> v]

\* a Python list
List(items) == [kind |-> "list", items |-> items]

\* a Python dict with string keys
Dict(items) == [kind |-> "dict", items |-> items]

\* an exception leaving the call
Raise(exc) == [kind |-> "raise", exc |-> exc]

\* isinstance(v, EIP712Struct)
IsInstance(v) == v.kind = "instance"

\* the first exception among the results, or None
FirstRaise(results) ==
    IF \E i \in 1..Len(results) : results[i].kind = "raise"
    THEN results[CHOOSE i \in 1..Len(results) :
                    /\ results[i].kind = "raise"
                    /\ \A j \in 1..(i - 1) : results[j].kind # "raise"]
    ELSE None

\* cls(**kwargs): EIP712Struct.__init__
RECURSIVE new_struct(_, _, _)
new_struct(cls, kwargs, G) ==
    LET members == get_members(cls, G)
        Given(i) == IF members[i].name \in DOMAIN kwargs THEN kwargs[members[i].name] ELSE None
        Stored(i) ==
            IF Given(i).kind = "dict"
            THEN IF IsStructClass(members[i].typ)
                 THEN new_struct(members[i].typ.cls, Given(i).items, G)
                 ELSE Raise("TypeError")   \* an EIP712Type instance is not callable
            ELSE Given(i)
        stored == [i \in 1..Len(members) |-> Stored(i)]
    IN  IF FirstRaise(stored) # None THEN FirstRaise(stored)
        ELSE [kind |-> "instance", cls |-> cls,
              values |-> [n \in {members[i].name : i \in 1..Len(members)} |->
                            stored[CHOOSE i \in 1..Len(members) : members[i].name = n]]]

\* self.get_data_value(name)
get_data_value(self, name) ==
    IF name \in DOMAIN self.values THEN self.values[name] ELSE None

\* an assignment without the membership test
set_data_value_unguarded(self, name, value) ==
    [self EXCEPT !.values = (name :> value) @@ self.values]

\* self.set_data_value(name, value)
set_data_value(self, name, value) ==
    IF name \in DOMAIN self.values
    THEN [self EXCEPT !.values[name] = value]
    ELSE self

\* self.data_dict()
RECURSIVE data_dict(_)
data_dict(self) ==
    Dict([k \in DOMAIN self.values |->
            IF IsInstance(self.values[k]) THEN data_dict(self.values[k]) ELSE self.values[k]])

\* keccak(b): a 32-byte digest, taken to be collision-free
keccak(b) == [kind |-> "keccak", pre |-> b]

\* one byte
Byte(n) == [kind |-> "byte", v |-> n]

\* the 32-byte word a scalar type encodes a value to
Word(typ, value) == [kind |-> "word", typ |-> typ.type_name, value |-> value]

\* text.encode('utf-8') for ASCII text
Utf8(text) == [i \in 1..Len(text) |-> Byte(Ord(text[i]))]

\* len(b) of a byte string
RECURSIVE ByteLen(_)
ByteLen(b) ==
    IF b = <<>> THEN 0
    ELSE (IF b[1].kind = "byte" THEN 1 ELSE 32) + ByteLen(Tail(b))

Bytes(b) == [kind |-> "bytes", b |-> b]

\* self.encode_value(), and typ.encode_value(value) for a member type typ
RECURSIVE encode_value(_, _)
RECURSIVE type_encode_value(_, _, _)
RECURSIVE array_encode_value(_, _, _)
encode_value(self, G) ==
    LET members == get_members(self.cls, G)
        encoded_values ==
            [i \in 1..Len(members) |->
                type_encode_value(members[i].typ, self.values[members[i].name], G)]
    IN  IF FirstRaise(encoded_values) # None THEN FirstRaise(encoded_values)
        ELSE Bytes(Concat([i \in 1..Len(members) |-> encoded_values[i].b]))

\* a basic type encodes a value to one 32-byte word
scalar_encode_value(typ, value) == Bytes(<<Word(typ, value)>>)

\* an Array encodes a sequence to the digest of its elements' encodings
array_encode_value(typ, value, G) ==
    LET items == IF value = None THEN <<>> ELSE value.items
        encoded_values ==
            [i \in 1..Len(items) |-> type_encode_value(typ.member_type, items[i], G)]
    IN  IF FirstRaise(encoded_values) # None THEN FirstRaise(encoded_values)
        ELSE Bytes(<<keccak(Concat([i \in 1..Len(items) |-> encoded_values[i].b]))>>)

\* typ.encode_value(value) as called on each member.  With a struct class as
\* typ the call binds the value as self: it returns that instance's own
\* encode_value, and fails on a value that has no `values`
type_encode_value(typ, value, G) ==
    CASE typ.kind = "scalar" -> scalar_encode_value(typ, value)
      [] typ.kind = "struct" ->
            IF IsInstance(value) THEN encode_value(value, G) ELSE Raise("AttributeError")
      [] typ.kind = "array" -> array_encode_value(typ, value, G)

\* cls.type_hash()
type_hash(cls, G) == keccak(Utf8(encode_type(cls, G)))

-----------------------------------------------------------------------------
(* The wire bridge *)

\* a signing hash built on the primary struct's hash_struct (type hash and
\* encoded values) instead of its type hash
typed_data_hash_of_values(primary_struct, domain_, G) ==
    LET data == encode_value(primary_struct, G)
    IN  keccak(<<Byte(25), Byte(1)>>
               \o <<type_hash(domain_.cls, G)>>
               \o <<keccak(<<type_hash(primary_struct.cls, G)>>
                           \o (IF data.kind = "bytes" THEN data.b ELSE <<>>))>>)

\* keccak(b'\x19\x01' + domain.type_hash() + primary_struct.type_hash())
typed_data_hash(primary_struct, domain_, G) ==
    keccak(<<Byte(25), Byte(1)>>
           \o <<type_hash(domain_.cls, G)>>
           \o <<type_hash(primary_struct.cls, G)>>)

\* struct_to_dict(primary_struct, domain): the pair (result, typed_data_hash).
\* The set starts with the two instances, so no class is in it when the walk
\* begins; the type table is keyed by the type_name of what the set holds.
struct_to_dict(primary_struct, domain_, G) ==
    LET structs == {domain_.cls, primary_struct.cls}
                   \cup gather_reference_structs(primary_struct.cls, {}, G)
        members_json(c) ==
            LET ms == get_members(c, G)
            IN  [i \in 1..Len(ms) |-> [name |-> ms[i].name, type |-> type_name(ms[i].typ)]]
    IN  [kind |-> "tuple",
         dict |-> [primaryType |-> primary_struct.cls,
                   types |-> [c \in structs |-> members_json(c)],
                   domain |-> data_dict(domain_),
                   message |-> data_dict(primary_struct)],
         hash |-> typed_data_hash(primary_struct, domain_, G)]

\* the scalar catalog's type names used here
KnownScalars == {<<"s", "t", "r", "i", "n", "g">>, <<"u", "i", "n", "t", "2", "5", "6">>}

\* from_solidity_type(s): the basic type of that name, or None
from_solidity_type(s) == IF s \in KnownScalars THEN Scalar(s) ELSE None

\* [a-zA-Z0-9_]
IsWordChar(c) ==
    \/ IsDigit(c)
    \/ c = "_"
    \/ (Ord(c) >= Ord("a") /\ Ord(c) <= Ord("z"))
    \/ (Ord(c) >= Ord("A") /\ Ord(c) <= Ord("Z"))

\* length of the longest prefix of s matching [a-zA-Z0-9_]*
RECURSIVE WordPrefixLen(_)
WordPrefixLen(s) ==
    IF s # <<>> /\ IsWordChar(s[1]) THEN 1 + WordPrefixLen(Tail(s)) ELSE 0

\* length of the longest prefix of s matching \d*
RECURSIVE DigitPrefixLen(_)
DigitPrefixLen(s) ==
    IF s # <<>> /\ IsDigit(s[1]) THEN 1 + DigitPrefixLen(Tail(s)) ELSE 0

\* re.match(r'([a-zA-Z0-9_]+)(\[(\d+)?\])?', s): the groups of the match at the
\* start of s (the rest of s is not looked at), or None
re_match(s) ==
    LET n == WordPrefixLen(s)
        rest == SubSeq(s, n + 1, Len(s))
        d == IF rest # <<>> /\ rest[1] = "[" THEN DigitPrefixLen(Tail(rest)) ELSE 0
        bracket == /\ rest # <<>>
                   /\ rest[1] = "["
                   /\ Len(rest) >= d + 2
                   /\ rest[d + 2] = "]"
    IN  IF n = 0 THEN None
        ELSE [kind |-> "match",
              group1 |-> SubSeq(s, 1, n),
              group2 |-> IF bracket THEN SubSeq(rest, 1, d + 2) ELSE <<>>,
              group3 |-> IF bracket THEN SubSeq(rest, 2, d + 1) ELSE <<>>]

\* the second pass of struct_from_dict on one unfulfilled member: the type to
\* set on the class, or the exception raised
resolve_reference(type_string, structs) ==
    LET match == re_match(type_string)
    IN  IF match = None THEN Raise("AttributeError")
        ELSE IF match.group1 \notin structs THEN Raise("KeyError")
        ELSE IF match.group2 # <<>>
             THEN Array(StructRef(match.group1),
                        IF match.group3 # <<>> THEN StrToInt(match.group3) ELSE 0)
             ELSE StructRef(match.group1)

\* struct_from_dict(message_dict): the classes it builds and the pair
\* (primary struct, domain struct), or the exception raised
struct_from_dict(message_dict) ==
    LET types == message_dict.types
        \* first pass: basic types are set, references are left as None
        FirstPass(c) ==
            [i \in 1..Len(types[c]) |->
                [name |-> types[c][i].name, typ |-> from_solidity_type(types[c][i].type)]]
        \* second pass: every member left as None is resolved
        Resolved(c) ==
            [i \in 1..Len(types[c]) |->
                IF FirstPass(c)[i].typ = None
                THEN resolve_reference(types[c][i].type, DOMAIN types)
                ELSE FirstPass(c)[i].typ]
        failures == UNION {{Resolved(c)[i] : i \in 1..Len(types[c])} : c \in DOMAIN types}
                    \cap {Raise("AttributeError"), Raise("KeyError")}
        structs == [c \in DOMAIN types |->
                       [i \in 1..Len(types[c]) |->
                           [name |-> types[c][i].name, typ |-> Resolved(c)[i]]]]
    IN  IF failures # {} THEN CHOOSE f \in failures : TRUE
        ELSE IF message_dict.primaryType \notin DOMAIN structs THEN Raise("KeyError")
        ELSE IF EIP712Domain \notin DOMAIN structs THEN Raise("KeyError")
        ELSE LET p == new_struct(message_dict.primaryType, message_dict.message.items, structs)
                 d == new_struct(EIP712Domain, message_dict.domain.items, structs)
             IN  IF p.kind = "raise" THEN p
                 ELSE IF d.kind = "raise" THEN d
                 ELSE [kind |-> "tuple", graph |-> structs, primary |-> p, domain |-> d]

-----------------------------------------------------------------------------
(* Struct classes the model is run on *)

TString == Scalar(<<"s", "t", "r", "i", "n", "g">>)
TUint256 == Scalar(<<"u", "i", "n", "t", "2", "5", "6">>)

\* member names, by position in the class body
MemberNames == << <<"x">>, <<"y">>, <<"z">>, <<"w">> >>

\* a class body declaring members of the given types, in this order
ClassBody(types) == [i \in 1..Len(types) |-> [name |-> MemberNames[i], typ |-> types[i]]]

SeqsUpTo(S, n) == UNION {[1..k -> S] : k \in 0..n}

\* class graphs for the type-signature operations: M, A and Ab reference each
\* other directly, through arrays, in cycles and in either declaration order
TypeGraphs ==
    { (NameM :> ClassBody(m)) @@ (NameA :> ClassBody(a)) @@ (NameAb :> ClassBody(b)) :
        m \in SeqsUpTo({StructRef(NameA), StructRef(NameAb), Array(StructRef(NameAb), 0)},
                       MaxMembers),
        a \in SeqsUpTo({StructRef(NameAb), StructRef(NameM)}, MaxMembers),
        b \in SeqsUpTo({TUint256, StructRef(NameAb)}, MaxMembers) }

-----------------------------------------------------------------------------
(* encode_type, with the reference-gathering walk run one step at a time *)

Idle == [op |-> "none"]

NoCalls(G) == [c \in DOMAIN G |-> 0]

\* a frame of _gather_reference_structs: the class, its list `structs`, and
\* the position of the for loop in it
Frame(cls, G) == [cls |-> cls, structs |-> gather_structs(cls, G), i |-> 1]

Top == stack[Len(stack)]

\* a walk that forgets what it has visited
never_in_struct_set(struct, S) == TRUE

\* line 101: `if struct not in struct_set`
not_in_struct_set(struct, S) == struct \notin S

\* cls.encode_type() is called: _encode_type builds an empty set and enters
\* _gather_reference_structs on cls
EncodeTypeCall(cls) ==
    /\ stack = <<>>
    /\ stack' = <<Frame(cls, graph)>>
    /\ struct_set' = {}
    /\ calls' = NoCalls(graph)
    /\ steps' = 0
    /\ res' = [op |-> "encode_type", cls |-> cls, done |-> FALSE, ret |-> <<>>]
    /\ UNCHANGED <<graph, primary, domain, out>>

\* where the innermost call stands
InLoop == stack # <<>> /\ Top.i <= Len(Top.structs)
LoopOver == stack # <<>> /\ Top.i > Len(Top.structs)

\* the loop reaches a struct not yet in the set: add it and recurse into it
GatherVisit ==
    /\ InLoop
    /\ not_in_struct_set(Top.structs[Top.i], struct_set)
    /\ LET s == Top.structs[Top.i] IN
        /\ struct_set' = struct_set \cup {s}
        /\ calls' = [calls EXCEPT ![s] = @ + 1]
        /\ stack' = Append(stack, Frame(s, graph))
    /\ steps' = steps + 1
    /\ UNCHANGED <<graph, primary, domain, out, res>>

\* the loop reaches a struct already in the set: next iteration
GatherSkip ==
    /\ InLoop
    /\ ~not_in_struct_set(Top.structs[Top.i], struct_set)
    /\ stack' = [stack EXCEPT ![Len(stack)].i = @ + 1]
    /\ steps' = steps + 1
    /\ UNCHANGED <<graph, primary, domain, out, res, struct_set, calls>>

\* the loop is over: return to the caller's loop, or, from the outermost call,
\* to _encode_type, which sorts the set and appends the signatures
GatherReturn ==
    /\ LoopOver
    /\ IF Len(stack) > 1
       THEN /\ stack' = [SubSeq(stack, 1, Len(stack) - 1) EXCEPT ![Len(stack) - 1].i = @ + 1]
            /\ res' = res
       ELSE /\ stack' = <<>>
            /\ res' = [res EXCEPT !.done = TRUE,
                                  !.ret = sig_with_references(res.cls, struct_set, graph)]
    /\ steps' = steps + 1
    /\ UNCHANGED <<graph, primary, domain, out, struct_set, calls>>

InitType ==
    /\ graph \in TypeGraphs
    /\ primary = None
    /\ domain = None
    /\ out = None
    /\ res = Idle
    /\ stack = <<>>
    /\ struct_set = {}
    /\ calls = NoCalls(graph)
    /\ steps = 0

NextType ==
    \/ \E cls \in DOMAIN graph : EncodeTypeCall(cls)
    \/ GatherVisit
    \/ GatherSkip
    \/ GatherReturn

SpecType == InitType /\ [][NextType]_vars

-----------------------------------------------------------------------------
(* A primary and a domain instance: accessors, encoding and the wire bridge *)

\* class graphs for the instance operations: the primary class M has scalar,
\* struct-typed and array-of-struct members; EIP712Domain may hold a struct
DataGraphs ==
    { (EIP712Domain :> ClassBody(d)) @@ (NameM :> ClassBody(m))
      @@ (NameA :> ClassBody(a)) @@ (NameAb :> ClassBody(<<TUint256>>)) :
        d \in {<<TString>>, <<TString, StructRef(NameA)>>},
        m \in SeqsUpTo({TString, StructRef(NameA), Array(StructRef(NameAb), 0)}, MaxMembers),
        a \in {<<TString>>, <<TString, StructRef(NameAb)>>} }

\* keyword arguments giving every member of cls a value: a scalar, a raw
\* mapping for a struct-typed member, a list of instances for an array
RECURSIVE DefaultKwargs(_, _)
RECURSIVE DefaultFor(_, _)
DefaultFor(typ, G) ==
    CASE typ.kind = "scalar" -> Value("a")
      [] typ.kind = "struct" -> Dict(DefaultKwargs(typ.cls, G))
      [] typ.kind = "array" ->
            List([i \in 1..MaxArrayLen |->
                    new_struct(typ.member_type.cls, DefaultKwargs(typ.member_type.cls, G), G)])

DefaultKwargs(cls, G) ==
    LET members == get_members(cls, G)
    IN  [n \in {members[i].name : i \in 1..Len(members)} |->
            DefaultFor(members[CHOOSE i \in 1..Len(members) : members[i].name = n].typ, G)]

\* values a caller sets on a member of the given type
SetValues(typ, G) ==
    CASE typ.kind = "scalar" -> {Value("a"), Value("b")}
      [] typ.kind = "struct" ->
            {None, new_struct(typ.cls, DefaultKwargs(typ.cls, G), G)}
      [] typ.kind = "array" ->
            {List([i \in 1..k |->
                    new_struct(typ.member_type.cls, DefaultKwargs(typ.member_type.cls, G), G)]) :
                k \in 0..MaxArrayLen}

\* a name no class declares
Undeclared == <<"q">>

\* type strings put in place of a member's type in a wire dict: a struct name
\* followed by other text, an unknown name, no name at all, a sized array
TamperStrings ==
    { <<"A", "!">>, <<"A", "b", "[", "2", "]", "x">>, <<"Z">>, <<"!">>,
      <<"A", "b", "[", "2", "]">> }

\* wire dicts a caller hands to struct_from_dict: one that struct_to_dict
\* returned, or that one with the type string of one primary member replaced
WireInputs(d) ==
    {d} \cup { [d EXCEPT !.types[d.primaryType][i].type = t] :
                 i \in 1..Len(d.types[d.primaryType]), t \in TamperStrings }

Walk0 ==
    /\ stack = <<>>
    /\ struct_set = {}
    /\ calls = NoCalls(graph)
    /\ steps = 0

Init ==
    /\ graph \in DataGraphs
    /\ primary = new_struct(NameM, DefaultKwargs(NameM, graph), graph)
    /\ domain = new_struct(EIP712Domain, DefaultKwargs(EIP712Domain, graph), graph)
    /\ out = None
    /\ res = Idle
    /\ Walk0

NoWalk == UNCHANGED <<graph, stack, struct_set, calls, steps>>

GetDataValue(name) ==
    /\ res' = [op |-> "get_data_value", name |-> name, ret |-> get_data_value(primary, name)]
    /\ UNCHANGED <<primary, domain, out>>
    /\ NoWalk

SetDataValue(name, value) ==
    /\ primary' = set_data_value(primary, name, value)
    /\ res' = [op |-> "set_data_value", name |-> name, value |-> value,
               old |-> get_data_value(primary, name)]
    /\ UNCHANGED <<domain, out>>
    /\ NoWalk

EncodeValue ==
    /\ res' = [op |-> "encode_value", ret |-> encode_value(primary, graph)]
    /\ UNCHANGED <<primary, domain, out>>
    /\ NoWalk

DataDict ==
    /\ res' = [op |-> "data_dict", ret |-> data_dict(primary)]
    /\ UNCHANGED <<primary, domain, out>>
    /\ NoWalk

StructToDict ==
    /\ res' = [op |-> "struct_to_dict", ret |-> struct_to_dict(primary, domain, graph)]
    /\ out' = res'.ret.hash
    /\ UNCHANGED <<primary, domain>>
    /\ NoWalk

StructFromDict(message_dict) ==
    /\ res' = [op |-> "struct_from_dict", arg |-> message_dict,
               ret |-> struct_from_dict(message_dict)]
    /\ UNCHANGED <<primary, domain, out>>
    /\ NoWalk

DeclaredNames(self, G) ==
    LET members == get_members(self.cls, G)
    IN  {members[i].name : i \in 1..Len(members)}

\* a caller sets a value fit for the member's type, or sets an undeclared name
SetSomeValue ==
    \/ \E i \in 1..Len(get_members(NameM, graph)) :
         \E value \in SetValues(get_members(NameM, graph)[i].typ, graph) :
            SetDataValue(get_members(NameM, graph)[i].name, value)
    \/ SetDataValue(Undeclared, Value("b"))

Next ==
    \/ \E name \in DeclaredNames(primary, graph) \cup {Undeclared} : GetDataValue(name)
    \/ SetSomeValue
    \/ EncodeValue
    \/ DataDict
    \/ StructToDict

Spec == Init /\ [][Next]_vars

\* the instances are serialised and the dict, as it is or with a type string
\* replaced, is parsed back
NextWire ==
    \/ SetSomeValue
    \/ \E message_dict \in WireInputs(struct_to_dict(primary, domain, graph).dict) :
         StructFromDict(message_dict)

SpecWire == Init /\ [][NextWire]_vars

-----------------------------------------------------------------------------
(* Properties of the type signature *)

\* the struct classes a type mentions: itself, or the element type of an array
RECURSIVE TypeRefs(_)
TypeRefs(typ) ==
    CASE typ.kind = "struct" -> {typ.cls}
      [] typ.kind = "array" -> TypeRefs(typ.member_type)
      [] OTHER -> {}

DirectRefs(cls, G) == UNION {TypeRefs(G[cls][i].typ) : i \in 1..Len(G[cls])}

RECURSIVE RefClosure(_, _)
RefClosure(S, G) ==
    LET n == S \cup UNION {DirectRefs(c, G) : c \in S}
    IN  IF n = S THEN S ELSE RefClosure(n, G)

\* every class transitively reachable from the members of cls
ReachableFrom(cls, G) == RefClosure(DirectRefs(cls, G), G)

\* the elements of S listed in strictly ascending string order
AscendingListing(S) ==
    [i \in 1..Cardinality(S) |->
        CHOOSE d \in S : Cardinality({e \in S : StrLess(e, d)}) = i - 1]

EncodeTypeDone == res.op = "encode_type" /\ res.done

\* C2: encode_type(D) is D's own signature followed, with no separator, by the
\* signature of each gathered class other than D exactly once, in ascending
\* order of type_name, whatever the order of declaration or of the walk
C2_ReferenceOrdering ==
    EncodeTypeDone =>
        LET order == AscendingListing(struct_set \ {res.cls})
        IN  res.ret = struct_sig(res.cls, graph)
                      \o Concat([i \in 1..Len(order) |-> struct_sig(order[i], graph)])

\* M declares Ab before A, and a cycle leads the walk back to M itself
C2_Witness ==
    /\ EncodeTypeDone
    /\ res.cls = NameM
    /\ gather_structs(NameM, graph) = <<NameAb, NameA>>
    /\ NameM \in struct_set

\* C3: the classes whose signatures encode_type(D) appends are exactly the
\* classes transitively reachable from D's members, through struct-typed
\* members and through the element type of array-typed members, minus D
C3_ReferenceGathering ==
    EncodeTypeDone => struct_set \ {res.cls} = ReachableFrom(res.cls, graph) \ {res.cls}

\* the walk's work on a graph: every class is entered at most once by
\* recursion and once more as the root, and each entry runs its loop once
WalkBound(G, root) ==
    LET Entries(c) == IF c = root THEN 2 ELSE 1
        Work(c) == Entries(c) * (Len(gather_structs(c, G)) + 1)
        classes == SetToSeq(DOMAIN G)
        Sum[i \in 0..Len(classes)] == IF i = 0 THEN 0 ELSE Sum[i - 1] + Work(classes[i])
    IN  Sum[Len(classes)]

\* C9: on every graph, also with self-references and cycles, the walk recurses
\* into each class at most once, always has a next step until it returns, and returns
\* (and encode_type with it) within a number of steps fixed by the graph
C9_TerminationUnderCycles ==
    /\ \A c \in DOMAIN calls : calls[c] <= 1
    /\ res.op = "encode_type" => steps <= WalkBound(graph, res.cls)
    /\ (res.op = "encode_type" /\ ~res.done) => (InLoop \/ LoopOver)
    /\ EncodeTypeDone => res.ret = encode_type(res.cls, graph)

\* a finished call on a class that its own references lead back to
C9_Witness ==
    /\ EncodeTypeDone
    /\ res.cls \in struct_set
    /\ calls[res.cls] = 1
    /\ NameAb \in DirectRefs(NameAb, graph)

-----------------------------------------------------------------------------
(* Properties of instances and of the wire bridge *)

FromDictDone == res.op = "struct_from_dict"

\* C1: struct_from_dict applied to the dict struct_to_dict returns succeeds
\* and gives instances with the same data_dict as the originals and the same
\* signing hash when struct_to_dict is applied to them
C1_RoundTrip ==
    LET original == struct_to_dict(primary, domain, graph)
    IN  (FromDictDone /\ res.arg = original.dict) =>
            /\ res.ret.kind = "tuple"
            /\ data_dict(res.ret.primary) = data_dict(primary)
            /\ data_dict(res.ret.domain) = data_dict(domain)
            /\ struct_to_dict(res.ret.primary, res.ret.domain, res.ret.graph).hash
                    = original.hash

\* C4: the data encoding of an instance is one 32-byte term per member, so it
\* is 32 * member_count bytes long, also with struct-typed members
C4_DataEncodingLength ==
    (res.op = "encode_value" /\ res.ret.kind = "bytes") =>
        ByteLen(res.ret.b) = 32 * Len(get_members(primary.cls, graph))

\* C5: the type table of struct_to_dict has an entry for the domain's class,
\* the primary's class and every class reachable from either, and no other
C5_TypeTableComplete ==
    res.op = "struct_to_dict" =>
        DOMAIN res.ret.dict.types =
            {domain.cls, primary.cls}
            \cup ReachableFrom(primary.cls, graph) \cup ReachableFrom(domain.cls, graph)

\* C6: a set on an undeclared name leaves the values unchanged, a set on a
\* declared member changes that member's value only, and the keys of the
\* values are always the declared member names
C6_PermissiveSet ==
    /\ [](DOMAIN primary.values = DeclaredNames(primary, graph))
    /\ [][ (res'.op = "set_data_value") =>
              /\ domain' = domain
              /\ primary'.cls = primary.cls
              /\ IF res'.name \in DeclaredNames(primary, graph)
                 THEN /\ primary'.values[res'.name] = res'.value
                      /\ \A k \in DOMAIN primary.values \ {res'.name} :
                            primary'.values[k] = primary.values[k]
                 ELSE primary'.values = primary.values ]_vars

\* a set on an undeclared name has returned
C6_Witness ==
    /\ res.op = "set_data_value"
    /\ res.name \notin DeclaredNames(primary, graph)
    /\ DeclaredNames(primary, graph) # {}

\* whether a plain value holds a struct instance at any depth
RECURSIVE HoldsInstance(_)
HoldsInstance(v) ==
    CASE v.kind = "instance" -> TRUE
      [] v.kind = "dict" -> \E k \in DOMAIN v.items : HoldsInstance(v.items[k])
      [] v.kind = "list" -> \E i \in 1..Len(v.items) : HoldsInstance(v.items[i])
      [] OTHER -> FALSE

\* C7: data_dict() has one key per declared member and holds no struct
\* instance at any depth, neither as a member value nor inside a sequence
C7_PlainData ==
    res.op = "data_dict" =>
        /\ DOMAIN res.ret.items = DeclaredNames(primary, graph)
        /\ ~HoldsInstance(res.ret)

\* whether s is, in full, identifier ( "[" digits? "]" )? with the identifier
\* one of the names
FullyMatches(s, names) ==
    \E n \in names :
        /\ Len(s) >= Len(n)
        /\ SubSeq(s, 1, Len(n)) = n
        /\ LET rest == SubSeq(s, Len(n) + 1, Len(s))
           IN  \/ rest = <<>>
               \/ /\ Len(rest) >= 2
                  /\ rest[1] = "["
                  /\ rest[Len(rest)] = "]"
                  /\ \A i \in 2..(Len(rest) - 1) : IsDigit(rest[i])

\* a wire dict with a member whose type is no scalar and no struct reference
Unresolvable(d) ==
    \E c \in DOMAIN d.types : \E i \in 1..Len(d.types[c]) :
        /\ d.types[c][i].type \notin KnownScalars
        /\ ~FullyMatches(d.types[c][i].type, DOMAIN d.types)

\* C8: struct_from_dict fails on every wire dict that has a member whose type
\* string is no known scalar and does not in full name a struct of the table
C8_UnresolvableReference ==
    (FromDictDone /\ Unresolvable(res.arg)) => res.ret.kind = "raise"

\* C10: the signing hash does not depend on the field values: the hash
\* struct_to_dict returned is the hash it returns on the same instances
\* whatever has been set on them since
C10_HashIgnoresValues ==
    out # None => struct_to_dict(primary, domain, graph).hash = out

\* a hash was returned and a set has since replaced a member's value by another
C10_Witness ==
    /\ out # None
    /\ res.op = "set_data_value"
    /\ res.name \in DeclaredNames(primary, graph)
    /\ res.old # res.value

====
